---- MODULE Spec2Model ----
(***************************************************************************)
(* Model of app.py: the three-stage production line (Prep, Machining, QC)  *)
(* run as a discrete-event simulation, and the metrics derived from its    *)
(* log.  The event queue, the process start/stop events and the resource   *)
(* pools are those the program obtains from simpy.Environment and          *)
(* simpy.Resource; one action of the model is one env.step(): the earliest *)
(* event is popped and all its callbacks run to completion.                *)
(***************************************************************************)
EXTENDS Integers, Sequences, FiniteSets, TLC

\* ---------------------------------------------------------------- bounds
MaxParts == 3       \* parts the generator creates within one run
MaxCap == 1         \* largest slider value tried for a pool capacity
MaxHorizon == 3     \* largest shift duration tried
MaxDur == 1         \* the positive sampled duration (service or inter-arrival)

\* ------------------------------------------------------------- constants
PREP == "1. Prep"
MACHINING == "2. Machining"
QC == "3. QC"
StageSet == {PREP, MACHINING, QC}
NoStage == "-"
Generator == 0      \* the part_generator process (parts are 1..MaxParts)
Parts == 1..MaxParts

\* simpy event priorities: process initialisation and the until-event of
\* env.run are URGENT, everything else is NORMAL.
URGENT == 0
NORMAL == 1

VARIABLES
    capacity,       \* c_prep, c_machining, c_qc         (lines 28-30, 52-54)
    sim_duration,   \* the horizon handed to env.run      (line 45)
    mean,           \* t_prep, t_machining, t_qc, arrival_rate (lines 33-35, 46)
    phase,          \* "ready" | "running" | "stopped" | "raised" | "done"
    now,            \* env.now
    eid,            \* the environment's event id counter
    queue,          \* the environment's heap of scheduled events
    users,          \* per pool: the parts holding a slot (Resource.users)
    put_queue,      \* per pool: the pending requests (Resource.put_queue)
    pc,             \* per part: position inside process_part
    start,          \* per part: the local variable start
    logs,           \* factory.logs
    i,              \* the generator's counter
    outcome,        \* "none" | "NoProduction" | "Metrics"
    summary,        \* the values the metrics branch computes (lines 117-142)
    reqSeq,         \* history: per pool, parts in the order they requested
    grantSeq,       \* history: per pool, parts in the order they were granted
    waited,         \* history: per pool, parts whose request had to queue
    grantTime,      \* history: per pool and part, Request.usage_since
    fired           \* history: the event dispatched by the last step

vars == <<capacity, sim_duration, mean, phase, now, eid, queue, users, put_queue,
          pc, start, logs, i, outcome, summary, reqSeq, grantSeq, waited,
          grantTime, fired>>

\* The slider settings tried (lines 28-30): the same capacity at every pool,
\* and the sliders' default setting, 2 / 1 / 2.
DefaultCapacity == [s \in StageSet |-> IF s = MACHINING THEN 1 ELSE 2]
Capacities == {[s \in StageSet |-> c] : c \in 1..MaxCap} \cup {DefaultCapacity}

\* ------------------------------------------------------------ the sampler
\* random.expovariate(1.0/mean) = -log(1 - random())/lambd with random() in
\* [0, 1): every value >= 0 can come out, 0.0 included.  The samples tried
\* are the smallest one and a positive one.
Samples == {0, MaxDur}

\* The cycle times and the arrival interval tried (lines 33-35, 46): the
\* defaults, and the defaults with one entry that is not positive.
ARRIVAL == "arrival"
DefaultMean == [k \in StageSet \cup {ARRIVAL} |->
                  IF k = PREP THEN 10 ELSE IF k = MACHINING THEN 15
                  ELSE IF k = QC THEN 8 ELSE 5]
Means == {DefaultMean,
          [DefaultMean EXCEPT ![ARRIVAL] = 0],
          [DefaultMean EXCEPT ![MACHINING] = 0],
          [DefaultMean EXCEPT ![PREP] = -1]}

\* What yield env.timeout(random.expovariate(1.0 / m)) does with the values
\* in xs.  m = 0: 1.0 / m raises ZeroDivisionError.  m < 0: lambd is negative
\* and the value is 0.0 or negative, and env.timeout raises ValueError on a
\* negative delay.
Draws(m, xs) ==
    IF m = 0 THEN {[err |-> "ZeroDivisionError", d |-> 0]}
    ELSE {[err |-> IF x < 0 THEN "ValueError" ELSE "none", d |-> x] :
             x \in IF m > 0 THEN xs ELSE {0, -MaxDur}}

\* The inter-arrival samples.  Once MaxParts parts exist the next interval
\* is one that falls beyond the horizon, so that no further part is created.
ArrivalSamples(n, t) ==
    IF n < MaxParts THEN Samples ELSE {sim_duration - t + 1}

\* line 96: the draws of the generator once it has created n parts; after
\* MaxParts parts a draw that would bring another part is left out.
ArrivalDraws(n, t) ==
    {x \in Draws(mean[ARRIVAL], ArrivalSamples(n, t)) :
        n < MaxParts \/ x.err # "none" \/ t + x.d > sim_duration}

\* -------------------------------------------------------- the event queue
Ev(t, prio, id, kind, part, stage) ==
    [time |-> t, prio |-> prio, id |-> id, kind |-> kind,
     part |-> part, stage |-> stage]

\* Variant of Before: the priority is left out of the heap key.
BeforeNoPriority(e, f) ==
    \/ e.time < f.time
    \/ e.time = f.time /\ e.id <= f.id

\* Variant of Before: the lower priority goes first.
BeforePriorityFlipped(e, f) ==
    \/ e.time < f.time
    \/ e.time = f.time /\ e.prio > f.prio
    \/ e.time = f.time /\ e.prio = f.prio /\ e.id <= f.id

\* heap order of simpy's queue: (time, priority, event id)
Before(e, f) ==
    \/ e.time < f.time
    \/ e.time = f.time /\ e.prio < f.prio
    \/ e.time = f.time /\ e.prio = f.prio /\ e.id <= f.id

NextEvent(q) == CHOOSE e \in q : \A f \in q : Before(e, f)

\* Variant of Schedule: the delay is subtracted (a sign slip).
ScheduleBackward(q, t, delay, prio, id, kind, part, stage) ==
    q \cup {Ev(t - delay, prio, id, kind, part, stage)}

\* env.schedule(event, priority, delay) with now = t
Schedule(q, t, delay, prio, id, kind, part, stage) ==
    q \cup {Ev(t + delay, prio, id, kind, part, stage)}

\* --------------------------------------------------------- resource pools
\* The mutable part of the environment a callback works on.
Env == [queue |-> queue, eid |-> eid, users |-> users, put_queue |-> put_queue,
        reqSeq |-> reqSeq, grantSeq |-> grantSeq, waited |-> waited,
        grantTime |-> grantTime]

\* Variant of CanGrant: off by one, a full pool still grants.
CanGrantLax(e, s) == Cardinality(e.users[s]) <= capacity[s]

\* Resource._do_put: the request is granted when a slot is free.
CanGrant(e, s) == Cardinality(e.users[s]) < capacity[s]

\* Variant of TriggerPut: the most recent request is served first.
TriggerPutLast(e, s, t) ==
    IF e.put_queue[s] # <<>> /\ CanGrant(e, s)
    THEN LET n == Len(e.put_queue[s])
             p == e.put_queue[s][n]
         IN [e EXCEPT !.users[s] = @ \cup {p},
                      !.put_queue[s] = SubSeq(@, 1, n - 1),
                      !.grantSeq[s] = Append(@, p),
                      !.grantTime[s][p] = t,
                      !.queue = Schedule(@, t, 0, NORMAL, e.eid, "Request", p, s),
                      !.eid = @ + 1]
    ELSE e

\* Variant of TriggerPut: the granted request is left in put_queue.
TriggerPutKeepsQueued(e, s, t) ==
    IF e.put_queue[s] # <<>> /\ CanGrant(e, s)
    THEN LET p == Head(e.put_queue[s]) IN
         [e EXCEPT !.users[s] = @ \cup {p},
                   !.grantSeq[s] = Append(@, p),
                   !.grantTime[s][p] = t,
                   !.queue = Schedule(@, t, 0, NORMAL, e.eid, "Request", p, s),
                   !.eid = @ + 1]
    ELSE e

\* BaseResource._trigger_put: looks at the head of put_queue only (the loop
\* breaks after the first request because _do_put returns None); a granted
\* request joins users and its event is scheduled at the current time t.
TriggerPut(e, s, t) ==
    IF e.put_queue[s] # <<>> /\ CanGrant(e, s)
    THEN LET p == Head(e.put_queue[s]) IN
         [e EXCEPT !.users[s] = @ \cup {p},
                   !.put_queue[s] = Tail(@),
                   !.grantSeq[s] = Append(@, p),
                   !.grantTime[s][p] = t,
                   !.queue = Schedule(@, t, 0, NORMAL, e.eid, "Request", p, s),
                   !.eid = @ + 1]
    ELSE e

\* Resource.request() by part p: the request is appended to put_queue and
\* _trigger_put runs at once.
Request(e, s, p, t) ==
    LET e1 == [e EXCEPT !.put_queue[s] = Append(@, p),
                        !.reqSeq[s] = Append(@, p)]
        e2 == TriggerPut(e1, s, t)
    IN  [e2 EXCEPT !.waited[s] = IF p \in e2.users[s] THEN @ ELSE @ \cup {p}]

\* Variant of Release: the slot is never given back.
ReleaseKeep(e, s, p, t) ==
    [e EXCEPT !.queue = Schedule(@, t, 0, NORMAL, e.eid, "Release", p, s),
              !.eid = @ + 1]

\* Variant of Release: the Release event is scheduled one time unit later.
ReleaseLate(e, s, p, t) ==
    [e EXCEPT !.users[s] = @ \ {p},
              !.queue = Schedule(@, t, 1, NORMAL, e.eid, "Release", p, s),
              !.eid = @ + 1]

\* Leaving the with-block: Resource.release(req).  The slot is freed at once
\* (_do_get) and a Release event is scheduled; its callback is _trigger_put.
Release(e, s, p, t) ==
    [e EXCEPT !.users[s] = @ \ {p},
              !.queue = Schedule(@, t, 0, NORMAL, e.eid, "Release", p, s),
              !.eid = @ + 1]

\* An exception leaves a process: simpy schedules the failed process event;
\* when it is dispatched env.step re-raises the exception.
Fail(e, proc, t) ==
    [e EXCEPT !.queue = Schedule(@, t, 0, NORMAL, e.eid, "ProcFail", proc, NoStage),
              !.eid = @ + 1]

\* yield env.timeout(...) for the draw x: the timeout event is scheduled, or
\* the process fails.
Timeout(e, x, t, kind, proc, stage) ==
    IF x.err = "none"
    THEN [e EXCEPT !.queue = Schedule(@, t, x.d, NORMAL, e.eid, kind, proc, stage),
                   !.eid = @ + 1]
    ELSE Fail(e, proc, t)

\* ------------------------------------------------------------------ log
\* Variant of log_data: Duration forgets to subtract start.
log_data_NoStart(l, name, stage, st, finish) ==
    Append(l, [Part |-> name, Stage |-> stage, Start |-> st,
               Finish |-> finish, Duration |-> finish])

\* Variant of log_data: the record is put in front of the list.
log_data_Front(l, name, stage, st, finish) ==
    <<[Part |-> name, Stage |-> stage, Start |-> st,
       Finish |-> finish, Duration |-> finish - st]>> \o l

\* ProductionLine.log_data
log_data(l, name, stage, st, finish) ==
    Append(l, [Part |-> name, Stage |-> stage, Start |-> st,
               Finish |-> finish, Duration |-> finish - st])

\* ------------------------------------------------------------- the stages
\* Variant of NextStage: Machining is skipped.
NextStageSkip(s) == IF s = PREP THEN QC ELSE NoStage

\* The order of the three with-blocks of process_part.
NextStage(s) == IF s = PREP THEN MACHINING ELSE IF s = MACHINING THEN QC ELSE NoStage
Awaiting(s) == IF s = PREP THEN "AwaitingPrep"
               ELSE IF s = MACHINING THEN "AwaitingMachining" ELSE "AwaitingQC"
InService(s) == IF s = PREP THEN "InPrep"
                ELSE IF s = MACHINING THEN "InMachining" ELSE "InQC"

\* the summary before, or without, the metrics branch
NoSummary == [computed |-> FALSE]

\* ------------------------------------------------------------------ Init
\* The state after lines 102-104: the environment and the factory exist and
\* env.process(part_generator(...)) has scheduled the generator's start.
Init ==
    /\ capacity \in Capacities
    /\ sim_duration \in (-1)..MaxHorizon
    /\ mean \in Means
    /\ phase = "ready"
    /\ now = 0
    /\ eid = 1
    /\ queue = {Ev(0, URGENT, 0, "InitGen", Generator, NoStage)}
    /\ users = [s \in StageSet |-> {}]
    /\ put_queue = [s \in StageSet |-> <<>>]
    /\ pc = [p \in Parts |-> "NotCreated"]
    /\ start = [p \in Parts |-> 0]
    /\ logs = <<>>
    /\ i = 0
    /\ outcome = "none"
    /\ summary = NoSummary
    /\ reqSeq = [s \in StageSet |-> <<>>]
    /\ grantSeq = [s \in StageSet |-> <<>>]
    /\ waited = [s \in StageSet |-> {}]
    /\ grantTime = [s \in StageSet |-> [p \in Parts |-> -1]]
    /\ fired = Ev(0, URGENT, 0, "None", Generator, NoStage)

SetEnv(e) ==
    /\ queue' = e.queue
    /\ eid' = e.eid
    /\ users' = e.users
    /\ put_queue' = e.put_queue
    /\ reqSeq' = e.reqSeq
    /\ grantSeq' = e.grantSeq
    /\ waited' = e.waited
    /\ grantTime' = e.grantTime

\* --------------------------------------------------------------- env.run
\* env.run(until=sim_duration), entry: a horizon that is not after the
\* current time raises ValueError; otherwise the until-event is scheduled
\* URGENT at the horizon.
RunRaises ==
    /\ phase = "ready"
    /\ sim_duration <= now
    /\ phase' = "raised"
    /\ UNCHANGED <<capacity, sim_duration, mean, now, eid, queue, users, put_queue,
                   pc, start, logs, i, outcome, summary, reqSeq, grantSeq, waited, grantTime, fired>>

\* Variant of RunStart: env.run() without until, no until-event is scheduled.
RunStartNoUntil ==
    /\ phase = "ready"
    /\ sim_duration > now
    /\ phase' = "running"
    /\ UNCHANGED <<capacity, sim_duration, mean, now, eid, queue, users, put_queue,
                   pc, start, logs, i, outcome, summary, reqSeq, grantSeq, waited,
                   grantTime, fired>>

RunStart ==
    /\ phase = "ready"
    /\ sim_duration > now
    /\ phase' = "running"
    /\ queue' = Schedule(queue, now, sim_duration - now, URGENT, eid, "Until",
                         Generator, NoStage)
    /\ eid' = eid + 1
    /\ UNCHANGED <<capacity, sim_duration, mean, now, users, put_queue, pc, start,
                   logs, i, outcome, summary, reqSeq, grantSeq, waited, grantTime, fired>>

\* env.step(): pop the earliest event and move the clock to its time.
Pop(kind) ==
    /\ phase = "running"
    /\ queue # {}
    /\ NextEvent(queue).kind = kind
    /\ now' = NextEvent(queue).time
    /\ fired' = NextEvent(queue)

Rest == queue \ {NextEvent(queue)}

\* Variant of StepUntil: the until-event has no StopSimulation callback.
StepUntilNoStop ==
    /\ Pop("Until")
    /\ queue' = Rest
    /\ UNCHANGED <<capacity, sim_duration, mean, phase, eid, users, put_queue, pc,
                   start, logs, i, outcome, summary, reqSeq, grantSeq, waited, grantTime>>

\* The until-event: StopSimulation ends env.run.
StepUntil ==
    /\ Pop("Until")
    /\ phase' = "stopped"
    /\ queue' = Rest
    /\ UNCHANGED <<capacity, sim_duration, mean, eid, users, put_queue, pc, start,
                   logs, i, outcome, summary, reqSeq, grantSeq, waited, grantTime>>

\* part_generator starts: it runs to its first yield (line 96).
StepInitGen ==
    /\ Pop("InitGen")
    /\ \E x \in ArrivalDraws(i, now') :
         SetEnv(Timeout([Env EXCEPT !.queue = Rest], x, now', "GenTimeout",
                        Generator, NoStage))
    /\ UNCHANGED <<capacity, sim_duration, mean, phase, pc, start, logs, i,
                   outcome, summary>>

\* part_generator resumes (lines 97-98, then 96 again): a new part's process
\* is created (its Initialize event is URGENT) and the next arrival sampled.
StepGenTimeout ==
    /\ Pop("GenTimeout")
    /\ i < MaxParts
    /\ i' = i + 1
    /\ pc' = [pc EXCEPT ![i + 1] = "Arrived"]
    /\ \E x \in ArrivalDraws(i + 1, now') :
         SetEnv(Timeout(
                  [Env EXCEPT
                     !.queue = Schedule(Rest, now', 0, URGENT, eid, "InitPart",
                                        i + 1, NoStage),
                     !.eid = @ + 1],
                  x, now', "GenTimeout", Generator, NoStage))
    /\ UNCHANGED <<capacity, sim_duration, mean, phase, start, logs, outcome,
                   summary>>

\* process_part starts: it requests a Prep slot and yields (lines 64-65).
StepInitPart ==
    /\ Pop("InitPart")
    /\ LET p == NextEvent(queue).part IN
         /\ SetEnv(Request([Env EXCEPT !.queue = Rest], PREP, p, now'))
         /\ pc' = [pc EXCEPT ![p] = Awaiting(PREP)]
    /\ UNCHANGED <<capacity, sim_duration, mean, phase, start, logs, i, outcome, summary>>

\* Variant of StepRequest: start is not taken when the part resumes.
StepRequestStaleStart ==
    /\ Pop("Request")
    /\ LET p == NextEvent(queue).part
           s == NextEvent(queue).stage
           e == [Env EXCEPT !.queue = Rest]
       IN \E x \in Draws(mean[s], Samples) :
            IF x.err = "none"
            THEN /\ SetEnv(Timeout(e, x, now', "Timeout", p, s))
                 /\ pc' = [pc EXCEPT ![p] = InService(s)]
            ELSE /\ SetEnv(Fail(Release(e, s, p, now'), p, now'))
                 /\ pc' = [pc EXCEPT ![p] = "Failed"]
    /\ UNCHANGED <<capacity, sim_duration, mean, phase, start, logs, i, outcome,
                   summary>>

\* The granted request is dispatched: the part resumes, records start and
\* yields the service timeout (lines 66-67, 73-74, 80-81).  When the draw
\* raises, the exception leaves the with-block (release) and the process.
StepRequest ==
    /\ Pop("Request")
    /\ LET p == NextEvent(queue).part
           s == NextEvent(queue).stage
           e == [Env EXCEPT !.queue = Rest]
       IN /\ start' = [start EXCEPT ![p] = now']
          /\ \E x \in Draws(mean[s], Samples) :
               IF x.err = "none"
               THEN /\ SetEnv(Timeout(e, x, now', "Timeout", p, s))
                    /\ pc' = [pc EXCEPT ![p] = InService(s)]
               ELSE /\ SetEnv(Fail(Release(e, s, p, now'), p, now'))
                    /\ pc' = [pc EXCEPT ![p] = "Failed"]
    /\ UNCHANGED <<capacity, sim_duration, mean, phase, logs, i, outcome,
                   summary>>

\* The service timeout is dispatched: the part logs the stage, leaves the
\* with-block (release) and requests the next stage, or ends (lines 68-82).
StepTimeout ==
    /\ Pop("Timeout")
    /\ LET p == NextEvent(queue).part
           s == NextEvent(queue).stage
           e1 == Release([Env EXCEPT !.queue = Rest], s, p, now')
       IN /\ logs' = log_data(logs, p, s, start[p], now')
          /\ IF NextStage(s) # NoStage
             THEN /\ SetEnv(Request(e1, NextStage(s), p, now'))
                  /\ pc' = [pc EXCEPT ![p] = Awaiting(NextStage(s))]
             ELSE /\ SetEnv([e1 EXCEPT
                      !.queue = Schedule(@, now', 0, NORMAL, e1.eid, "ProcEnd", p, NoStage),
                      !.eid = @ + 1])
                  /\ pc' = [pc EXCEPT ![p] = "Departed"]
    /\ UNCHANGED <<capacity, sim_duration, mean, phase, start, i, outcome, summary>>

\* The Release event is dispatched: its callback grants the head of the
\* pool's queue when a slot is free.
StepRelease ==
    /\ Pop("Release")
    /\ SetEnv(TriggerPut([Env EXCEPT !.queue = Rest], NextEvent(queue).stage, now'))
    /\ UNCHANGED <<capacity, sim_duration, mean, phase, pc, start, logs, i, outcome, summary>>

\* The event of a finished process_part: nothing waits for it.
StepProcEnd ==
    /\ Pop("ProcEnd")
    /\ queue' = Rest
    /\ UNCHANGED <<capacity, sim_duration, mean, phase, eid, users, put_queue, pc,
                   start, logs, i, outcome, summary, reqSeq, grantSeq, waited, grantTime>>

\* The event of a failed process is dispatched: nothing has defused it, so
\* env.step raises its exception and env.run (line 107) passes it on.
StepProcFail ==
    /\ Pop("ProcFail")
    /\ phase' = "raised"
    /\ queue' = Rest
    /\ UNCHANGED <<capacity, sim_duration, mean, eid, users, put_queue, pc,
                   start, logs, i, outcome, summary, reqSeq, grantSeq, waited,
                   grantTime>>

\* ---------------------------------------------------------------- metrics
RECURSIVE SumDuration(_, _)
SumDuration(l, s) ==
    IF l = <<>> THEN 0
    ELSE (IF Head(l).Stage = s THEN Head(l).Duration ELSE 0) + SumDuration(Tail(l), s)

RECURSIVE CountStage(_, _)
CountStage(l, s) ==
    IF l = <<>> THEN 0
    ELSE (IF Head(l).Stage = s THEN 1 ELSE 0) + CountStage(Tail(l), s)

\* line 118
finished_parts == CountStage(logs, QC)

\* Variant of Branch: the branch is taken on the number of finished parts.
BranchOnFinished(l) == IF CountStage(l, QC) > 0 THEN "Metrics" ELSE "NoProduction"

\* lines 109-111, 202-203: df.empty decides between the two outcomes.
Branch(l) == IF l # <<>> THEN "Metrics" ELSE "NoProduction"

\* utilization (lines 136-139) is SumDuration / (capacity * sim_duration) * 100;
\* it is kept as a fraction: numerator and denominator.
UtilNum(s) == SumDuration(logs, s) * 100
UtilDen(s) == capacity[s] * sim_duration

\* util(a) > util(b), on the fractions (the denominators are positive)
UtilGreater(a, b) == UtilNum(a) * UtilDen(b) > UtilNum(b) * UtilDen(a)

\* line 141: the dict utils, in insertion order, as <<key, stage>> pairs
utils == << <<"Prep", PREP>>, <<"Machining", MACHINING>>, <<"QC", QC>> >>

\* Variant of PyMax: a later entry of equal value replaces the best so far.
RECURSIVE PyMaxLast(_, _)
PyMaxLast(best, k) ==
    IF k > Len(utils) THEN best
    ELSE PyMaxLast(IF ~UtilGreater(utils[best][2], utils[k][2]) THEN k ELSE best, k + 1)

\* max(utils, key=utils.get): the entries are visited in order and the best
\* so far is replaced only by a strictly greater value.  best and k are
\* positions in utils.
RECURSIVE PyMax(_, _)
PyMax(best, k) ==
    IF k > Len(utils) THEN best
    ELSE PyMax(IF UtilGreater(utils[k][2], utils[best][2]) THEN k ELSE best, k + 1)

\* line 142
bottleneck_stage == utils[PyMax(1, 2)][1]

\* ------------------------------------------------------------- financials
\* shift_hours = sim_duration / 60 (line 125) is not a whole number in
\* general: amounts that contain it are kept in sixtieths (the names end in
\* 60), and the margin as a fraction <<numerator, denominator>>.
MinutesPerHour == 60

\* the sidebar's financial inputs tried (lines 39-41): the defaults, and a
\* price of 0
Prices == {0, 150}
Costs == {20}
RawCosts == {40}

\* line 121
total_revenue(fp, price) == fp * price
\* line 124
total_machines(cap) == cap[PREP] + cap[MACHINING] + cap[QC]
\* lines 125-126, times 60
total_op_cost60(machines, cost, duration) == machines * cost * duration
\* line 129
total_mat_cost(fp, raw) == fp * raw

\* Variant of net_profit60: the parentheses around the costs are lost.
net_profit60_NoParens(revenue, op60, mat) ==
    revenue * MinutesPerHour - op60 + mat * MinutesPerHour

\* line 132, times 60
net_profit60(revenue, op60, mat) ==
    revenue * MinutesPerHour - (op60 + mat * MinutesPerHour)

\* line 133
roi_margin(net60, revenue) ==
    IF revenue > 0 THEN <<net60 * 100, revenue * MinutesPerHour>> ELSE <<0, 1>>

\* lines 117-142 for the inputs price, cost, raw
Summary(price, cost, raw) ==
    LET fp == finished_parts
        revenue == total_revenue(fp, price)
        op60 == total_op_cost60(total_machines(capacity), cost, sim_duration)
        mat == total_mat_cost(fp, raw)
        net60 == net_profit60(revenue, op60, mat)
    IN  [computed |-> TRUE,
         price_per_unit |-> price, cost_per_hour |-> cost,
         raw_material_cost |-> raw,
         finished_parts |-> fp,
         total_revenue |-> revenue,
         total_op_cost60 |-> op60,
         total_mat_cost |-> mat,
         net_profit60 |-> net60,
         roi_margin |-> roi_margin(net60, revenue),
         bottleneck_stage |-> bottleneck_stage]

\* lines 109-203: the frame is built from the log and one of the two
\* branches is taken.
Metrics ==
    /\ phase = "stopped"
    /\ phase' = "done"
    /\ outcome' = Branch(logs)
    /\ \E price \in Prices, cost \in Costs, raw \in RawCosts :
         summary' = IF Branch(logs) = "Metrics"
                    THEN Summary(price, cost, raw) ELSE NoSummary
    /\ UNCHANGED <<capacity, sim_duration, mean, now, eid, queue, users, put_queue,
                   pc, start, logs, i, reqSeq, grantSeq, waited, grantTime, fired>>

Next ==
    \/ RunRaises
    \/ RunStart
    \/ StepUntil
    \/ StepInitGen
    \/ StepGenTimeout
    \/ StepInitPart
    \/ StepRequest
    \/ StepTimeout
    \/ StepRelease
    \/ StepProcEnd
    \/ StepProcFail
    \/ Metrics

Spec == Init /\ [][Next]_vars

\* env.run (line 107) keeps calling env.step while an event is queued and the
\* script then goes on to the metrics: a step that can be taken is taken.
LiveSpec == Init /\ [][Next]_vars /\ WF_vars(Next)

\* ============================================================ properties
IsPrefix(a, b) == Len(a) <= Len(b) /\ \A k \in 1..Len(a) : a[k] = b[k]
Occupied(s) == Cardinality(users[s])
StageOrder == <<PREP, MACHINING, QC>>
\* the stages of part p's records, in log order
RECURSIVE StagesOf(_, _)
StagesOf(l, p) ==
    IF l = <<>> THEN <<>>
    ELSE (IF Head(l).Part = p THEN <<Head(l).Stage>> ELSE <<>>) \o StagesOf(Tail(l), p)
InSeq(x, q) == \E k \in 1..Len(q) : q[k] = x
Occurrences(x, q) == Cardinality({k \in 1..Len(q) : q[k] = x})

\* C1: in every reachable state each pool's number of occupied slots lies
\* between 0 and the pool's capacity.
C1_OccupiedWithinCapacity ==
    \A s \in StageSet : 0 <= Occupied(s) /\ Occupied(s) <= capacity[s]

\* A pool of capacity 2 is full while a third part waits for it.
C1_Witness ==
    \E s \in StageSet :
        capacity[s] = 2 /\ Occupied(s) = capacity[s] /\ put_queue[s] # <<>>

\* C2: on each pool the grants follow the order of the requests: the parts
\* granted so far are exactly the first requesters, in request order, so no
\* waiting request is overtaken by a later one.
C2_GrantsAreFIFO ==
    \A s \in StageSet :
        /\ IsPrefix(grantSeq[s], reqSeq[s])
        /\ \A k \in 1..Len(put_queue[s]) :
               put_queue[s][k] = reqSeq[s][Len(grantSeq[s]) + k]

\* Two parts had to wait on the same pool and both have been granted since.
C2_Witness ==
    \E s \in StageSet : \E a, b \in waited[s] :
        /\ a # b
        /\ InSeq(a, grantSeq[s])
        /\ InSeq(b, grantSeq[s])

\* C3: the clock never moves backward, and when it changes it jumps to the
\* time of the earliest scheduled event, which the step dispatches.
C3_ClockStep ==
    /\ now' >= now
    /\ now' # now =>
          /\ phase = "running"
          /\ queue # {}
          /\ \A e \in queue : now' <= e.time
          /\ \E e \in queue : now' = e.time /\ fired' = e

C3_ClockMonotone == [][C3_ClockStep]_vars

\* The clock has jumped forward during the run, past at least one step of
\* the same simulated time.
C3_Witness == phase = "running" /\ now > 0 /\ fired.kind = "Release"

\* C4: the records of a part are a prefix of Prep, Machining, QC; a part
\* requests a stage once, and only when the stage before it is logged and
\* its slot released; a part holds at most one slot over the three pools.
C4_StageOrderOneSlot ==
    \A p \in Parts :
        /\ IsPrefix(StagesOf(logs, p), StageOrder)
        /\ Cardinality({s \in StageSet : p \in users[s]}) <= 1
        /\ \A k \in 1..3 :
              LET s == StageOrder[k] IN
              /\ Occurrences(p, reqSeq[s]) <= 1
              /\ InSeq(p, reqSeq[s]) =>
                    /\ Len(StagesOf(logs, p)) >= k - 1
                    /\ \A j \in 1..(k - 1) : p \notin users[StageOrder[j]]
              /\ Len(StagesOf(logs, p)) >= k => InSeq(p, grantSeq[s])

\* A part has gone through all three stages while another part holds a slot.
C4_Witness ==
    \E p, q \in Parts :
        /\ pc[p] = "Departed"
        /\ StagesOf(logs, p) = StageOrder
        /\ \E s \in StageSet : q \in users[s]

Finished == phase \in {"stopped", "done"}
AllRecords == {logs[k] : k \in 1..Len(logs)}

\* C5: for each stage the durations logged sum to at most capacity x horizon,
\* so the utilization computed from the log is at most 100%.
C5_UtilizationAtMost100 ==
    \A s \in StageSet :
        sim_duration > 0 =>
            /\ SumDuration(logs, s) <= capacity[s] * sim_duration
            /\ UtilNum(s) <= 100 * UtilDen(s)

\* The run has ended while a part was still in service at a stage that has
\* logged busy time.
C5_Witness ==
    /\ phase = "done"
    /\ \E s \in StageSet :
          /\ SumDuration(logs, s) > 0
          /\ \E p \in Parts : pc[p] = InService(s) /\ p \in users[s]

\* C6: no event scheduled after the horizon is dispatched, every record
\* finishes by the horizon, and a run that has stopped has its clock at the
\* horizon.
C6_HorizonBoundsRun ==
    /\ fired.kind # "None" => fired.time <= sim_duration
    /\ \A r \in AllRecords : r.Finish <= sim_duration
    /\ Finished => now = sim_duration

\* The run has stopped with records in the log, leaving in the queue an
\* arrival scheduled after the horizon and a service timeout that was never
\* dispatched.
C6_Witness ==
    /\ phase = "stopped"
    /\ logs # <<>>
    /\ \E e \in queue : e.time > sim_duration /\ e.kind = "GenTimeout"
    /\ \E e \in queue : e.time >= sim_duration /\ e.kind = "Timeout"

\* The script has run to its end: either env.run raised or the metrics step
\* has chosen its branch.
Ended == phase \in {"raised", "done"}

\* Every mean cycle time and the arrival interval are positive.
ValidMeans == \A k \in DOMAIN mean : mean[k] > 0

\* C7: when no part arrives within the horizon (horizon 0 included) the run
\* completes with an empty log and the "no production" outcome, no error.
C7_NoArrivalNoProduction ==
    (Ended /\ ValidMeans /\ sim_duration >= 0 /\ i = 0) =>
        (phase = "done" /\ logs = <<>> /\ outcome = "NoProduction")

\* C8 as stated: zero finished parts always gives "no production".
C8_NoFinishedNoProduction ==
    (phase = "done" /\ finished_parts = 0) => outcome = "NoProduction"

\* C8, amended: "no production" is the outcome exactly when the log is
\* empty; a log holding only Prep or Machining records takes the metrics
\* branch, with finished_parts = 0.
C8_NoProductionIffEmptyLog ==
    phase = "done" =>
        /\ outcome = "NoProduction" <=> logs = <<>>
        /\ outcome = "Metrics" <=> logs # <<>>

\* The metrics branch was taken on a log without any QC record.
C8_Witness ==
    /\ phase = "done"
    /\ logs # <<>>
    /\ finished_parts = 0
    /\ outcome = "Metrics"

\* C9: the log only grows at its end, one record at a time, records already
\* in it stay as they are, and finish times never decrease along the log.
C9_LogStep ==
    \/ logs' = logs
    \/ /\ Len(logs') = Len(logs) + 1
       /\ SubSeq(logs', 1, Len(logs)) = logs
       /\ logs'[Len(logs')].Finish = now'

C9_FinishOrdered ==
    \A j, k \in 1..Len(logs) : j < k => logs[j].Finish <= logs[k].Finish

C9_AppendOnlyOrdered == []C9_FinishOrdered /\ [][C9_LogStep]_vars

\* A later part's record precedes an earlier part's record in the log, and
\* the log spans more than one finish time.
C9_Witness ==
    \E j, k \in 1..Len(logs) :
        /\ j < k
        /\ logs[j].Part > logs[k].Part
        /\ logs[1].Finish < logs[Len(logs)].Finish

\* C10 as stated: every record's Duration is strictly positive.
C10_DurationPositive ==
    \A r \in AllRecords :
        /\ r.Duration = r.Finish - r.Start
        /\ r.Start = grantTime[r.Stage][r.Part]
        /\ r.Duration > 0

\* C10, amended: every record has Duration = finish - start, start the time
\* the slot was granted, and Duration >= 0 (0 when the sample is 0).
C10_DurationNonNegative ==
    \A r \in AllRecords :
        /\ r.Duration = r.Finish - r.Start
        /\ r.Start = grantTime[r.Stage][r.Part]
        /\ r.Duration >= 0

\* A record of a part that had to wait for its slot, with a positive start,
\* next to a record of duration 0.
C10_Witness ==
    \E r, z \in AllRecords :
        /\ r.Part \in waited[r.Stage]
        /\ r.Start > 0
        /\ r.Duration > 0
        /\ z.Duration = 0

EventsOf(q, p) == {e \in q : e.part = p}
RecordsOf(l, p) == SelectSeq(l, LAMBDA r : r.Part = p)
Created(p) == pc[p] # "NotCreated"

\* C11 as stated: every part created during the run has reached Departed
\* when the run is over.
C11_EveryPartDeparts ==
    phase = "done" => \A p \in Parts : Created(p) => pc[p] = "Departed"

\* C11, amended: Departed is entered at most once, from QC service only, and
\* never left; a Departed part has its three records, holds no slot and has
\* no request pending; no step schedules an event for it, issues a request
\* for it or appends a record of it.  (A part still in the line when the
\* horizon is reached never departs.)
C11_DepartedState ==
    \A p \in Parts : pc[p] = "Departed" =>
        /\ StagesOf(logs, p) = StageOrder
        /\ \A s \in StageSet : p \notin users[s] /\ ~InSeq(p, put_queue[s])
        /\ \A e \in EventsOf(queue, p) : e.kind \in {"Release", "ProcEnd"}

C11_DepartedStep ==
    \A p \in Parts :
        /\ (pc'[p] = "Departed" /\ pc[p] # "Departed") => pc[p] = "InQC"
        /\ pc[p] = "Departed" =>
              /\ pc'[p] = "Departed"
              /\ EventsOf(queue', p) \subseteq EventsOf(queue, p)
              /\ RecordsOf(logs', p) = RecordsOf(logs, p)
              /\ \A s \in StageSet :
                    Occurrences(p, reqSeq'[s]) = Occurrences(p, reqSeq[s])

C11_DepartedIsFinal == []C11_DepartedState /\ [][C11_DepartedStep]_vars

\* The process-end event of a Departed part has been dispatched while
\* another part is still in the line.
C11_Witness ==
    \E p, q \in Parts :
        /\ pc[p] = "Departed"
        /\ fired.kind = "ProcEnd" /\ fired.part = p
        /\ Created(q) /\ pc[q] # "Departed"
        /\ phase = "running"

\* a pool with a free slot and a request waiting for it
IdleWithWaiter(s) == put_queue[s] # <<>> /\ Occupied(s) < capacity[s]
ReleasePending(q, s, t) == \E e \in q : e.kind = "Release" /\ e.stage = s /\ e.time = t

\* C12: a pool that has a free slot and a waiting request has its release
\* event pending at the current time; the clock does not advance in that
\* state, and a waiting part is granted at the time of the release that
\* freed its slot.
C12_ReleaseIsPending ==
    \A s \in StageSet : IdleWithWaiter(s) => ReleasePending(queue, s, now)

C12_GrantStep ==
    \A s \in StageSet :
        /\ IdleWithWaiter(s) => now' = now
        /\ \A p \in (users'[s] \ users[s]) \cap waited[s] :
              /\ ReleasePending(queue, s, now')
              /\ grantTime'[s][p] = now'

C12_GrantAtReleaseTime == []C12_ReleaseIsPending /\ [][C12_GrantStep]_vars

\* The release event of a pool has just been dispatched at a positive time
\* and has granted the slot to a part that was waiting.
C12_Witness ==
    /\ fired.kind = "Release"
    /\ now > 0
    /\ \E p \in waited[fired.stage] :
          /\ p \in users[fired.stage]
          /\ grantTime[fired.stage][p] = now
          /\ \E e \in queue : e.kind = "Request" /\ e.part = p /\ e.time = now

\* the events that were pending, at the dispatched event's time, when the
\* step dispatched it
PendingWith(e) == {f \in queue : f # e /\ f.time = e.time}
Dispatches == fired' # fired

\* C14 as stated: of the events pending at the same time the one scheduled
\* first (smallest event id) is dispatched first.
C14_FifoStep ==
    Dispatches => \A f \in PendingWith(fired') : fired'.id < f.id

C14_SameTimeFIFO == [][C14_FifoStep]_vars

\* C14, amended: events at the same time are dispatched by priority first
\* (process-start events and the until-event before timeouts, grants and
\* releases) and in scheduling order among events of the same priority.
C14_PriorityStep ==
    Dispatches =>
        \A f \in PendingWith(fired') :
            \/ fired'.prio < f.prio
            \/ fired'.prio = f.prio /\ fired'.id < f.id

C14_SameTimePriorityThenFIFO == [][C14_PriorityStep]_vars

\* A part's process-start event has been dispatched ahead of an event of the
\* same time that was scheduled before it, and a later step has dispatched
\* one of two same-priority events of the same time.
C14_Witness ==
    /\ fired.kind = "InitPart"
    /\ \E f \in queue : f.time = fired.time /\ f.id < fired.id /\ f.prio = NORMAL
    /\ \E f, g \in queue : f.time = fired.time /\ g.time = f.time /\ f.id # g.id
                            /\ f.prio = g.prio

\* C19 as stated: when the run has stopped, every event scheduled at exactly
\* the horizon has been dispatched (only later events are left).
C19_HorizonEventsDispatched ==
    Finished => \A e \in queue : e.time > sim_duration

\* C19, amended: the run stops when the clock reaches the horizon; apart
\* from the until-event nothing scheduled at exactly the horizon is
\* dispatched, so every record finishes strictly before the horizon.
C19_StopsAtHorizon ==
    /\ fired.kind \notin {"None", "Until"} => fired.time < sim_duration
    /\ \A r \in AllRecords : r.Finish < sim_duration
    /\ Finished => fired.kind = "Until" /\ fired.time = sim_duration

\* The run has stopped with a service timeout scheduled at exactly the
\* horizon still in the queue; its part is in service and has no record of
\* that stage.
C19_Witness ==
    /\ phase = "stopped"
    /\ \E e \in queue :
          /\ e.kind = "Timeout"
          /\ e.time = sim_duration
          /\ pc[e.part] = InService(e.stage)
          /\ \A r \in AllRecords : ~(r.Part = e.part /\ r.Stage = e.stage)

InServiceAt(s) == {p \in Parts : pc[p] = InService(s)}
AwaitingAt(s) == {p \in Parts : pc[p] = Awaiting(s)}
Queued(s) == {put_queue[s][k] : k \in 1..Len(put_queue[s])}
\* parts whose request is granted but whose grant event is not yet dispatched
GrantPending(s) ==
    {p \in Parts : \E e \in queue : e.kind = "Request" /\ e.part = p /\ e.stage = s}

\* C20 as stated: in every reachable state the occupied slots of a pool are
\* the parts in service at its stage and its wait queue holds exactly the
\* parts awaiting the stage.
C20_PoolMatchesParts ==
    \A s \in StageSet :
        /\ Occupied(s) = Cardinality(InServiceAt(s))
        /\ Queued(s) = AwaitingAt(s)
        /\ Len(put_queue[s]) = Cardinality(Queued(s))
        /\ Queued(s) \cap users[s] = {}

\* C20, amended: the holders of a pool are the parts in service at its stage
\* together with the parts already granted whose grant event is pending at
\* the current time; the wait queue holds exactly the other awaiting parts,
\* each once; once nothing is pending at the current time the two agree as
\* stated.
C20_PoolState ==
    \A s \in StageSet :
        /\ users[s] = InServiceAt(s) \cup GrantPending(s)
        /\ InServiceAt(s) \cap GrantPending(s) = {}
        /\ GrantPending(s) \subseteq AwaitingAt(s)
        /\ \A e \in queue : e.kind = "Request" => e.time = now
        /\ Queued(s) = AwaitingAt(s) \ GrantPending(s)
        /\ Len(put_queue[s]) = Cardinality(Queued(s))
        /\ Queued(s) \cap users[s] = {}
        /\ (\A e \in queue : e.time > now) =>
              Occupied(s) = Cardinality(InServiceAt(s)) /\ Queued(s) = AwaitingAt(s)

\* a record is appended by a part that holds the slot of the record's stage,
\* and the slot is released in the same step, at the record's finish time
C20_LogStep ==
    logs' # logs =>
        LET r == logs'[Len(logs')] IN
        /\ r.Part \in users[r.Stage]
        /\ pc[r.Part] = InService(r.Stage)
        /\ r.Part \notin users'[r.Stage]
        /\ r.Finish = now'
        /\ ReleasePending(queue', r.Stage, now')

C20_PoolConsistent == []C20_PoolState /\ [][C20_LogStep]_vars

\* A part holds a slot while its grant event is still pending, next to a
\* part in service and a part queued on the same pool.
C20_Witness ==
    \E s \in StageSet :
        /\ GrantPending(s) # {}
        /\ InServiceAt(s) # {}
        /\ Queued(s) # {}

MetricsDone == phase = "done" /\ summary.computed
UtilEqual(a, b) == UtilNum(a) * UtilDen(b) = UtilNum(b) * UtilDen(a)
KeyPosition(key) == CHOOSE k \in 1..Len(utils) : utils[k][1] = key

\* C16: the bottleneck stage has maximal utilization, and every stage that
\* precedes it in the order Prep, Machining, QC has strictly smaller
\* utilization (ties go to the earlier stage).
C16_BottleneckIsFirstMaximum ==
    MetricsDone =>
        /\ summary.bottleneck_stage \in {"Prep", "Machining", "QC"}
        /\ LET b == KeyPosition(summary.bottleneck_stage) IN
           \A k \in 1..Len(utils) :
              /\ ~UtilGreater(utils[k][2], utils[b][2])
              /\ k < b => UtilGreater(utils[b][2], utils[k][2])

\* Prep and Machining tie at a positive utilization that QC does not exceed,
\* and the bottleneck is Prep.
C16_Witness ==
    /\ MetricsDone
    /\ UtilNum(PREP) > 0
    /\ UtilEqual(PREP, MACHINING)
    /\ ~UtilGreater(QC, PREP)
    /\ summary.bottleneck_stage = "Prep"

\* C17: the metrics branch computes finished_parts as the number of QC
\* records, revenue = finished x price, operating cost = machines x cost per
\* hour x horizon / 60, material cost = finished x material cost, profit =
\* revenue - (operating + material) and margin = profit / revenue x 100, or 0
\* when the revenue is 0; on the worked example the values are 1500, 800,
\* 400, 300 and 20%.
C17_Financials ==
    /\ MetricsDone =>
        LET m == summary
            n == Cardinality({k \in 1..Len(logs) : logs[k].Stage = QC})
            machines == capacity[PREP] + capacity[MACHINING] + capacity[QC]
        IN  /\ m.finished_parts = n
            /\ m.total_revenue = n * m.price_per_unit
            /\ m.total_op_cost60 = machines * m.cost_per_hour * sim_duration
            /\ m.total_mat_cost = n * m.raw_material_cost
            /\ m.net_profit60 =
                  60 * m.total_revenue - m.total_op_cost60 - 60 * m.total_mat_cost
            /\ m.roi_margin[2] > 0
            /\ IF m.total_revenue > 0
               THEN /\ m.roi_margin[1] = 100 * m.net_profit60
                    /\ m.roi_margin[2] = 60 * m.total_revenue
               ELSE m.roi_margin[1] = 0
    /\ total_revenue(10, 150) = 1500
    /\ total_op_cost60(5, 20, 480) = 800 * 60
    /\ total_mat_cost(10, 40) = 400
    /\ net_profit60(1500, 800 * 60, 400) = 300 * 60
    /\ roi_margin(300 * 60, 1500)[1] = 20 * roi_margin(300 * 60, 1500)[2]

\* The metrics branch has run on a log with two finished parts, a positive
\* revenue and a profit.
C17_Witness ==
    /\ MetricsDone
    /\ summary.finished_parts >= 2
    /\ summary.total_revenue > 0
    /\ summary.net_profit60 > 0
    /\ summary.roi_margin[1] > 0

\* A configuration the validation should turn away: a mean cycle time or the
\* arrival interval not positive, a capacity not positive, a negative horizon.
InvalidConfig ==
    \/ ~ValidMeans
    \/ \E s \in StageSet : capacity[s] <= 0
    \/ sim_duration < 0

\* C15: an invalid configuration is rejected before the run starts: no event
\* is dispatched, the clock stays at 0 and no record is appended to the log.
C15_InvalidRejected ==
    InvalidConfig => (fired.kind = "None" /\ now = 0 /\ logs = <<>>)

\* The failing run of C15: machining time 0, a Prep record logged, the clock
\* advanced, and env.run has raised.
C15_FailingRun ==
    /\ mean[MACHINING] = 0
    /\ phase = "raised"
    /\ now > 0
    /\ logs # <<>>

====
